---- MODULE Spec2Model ----
(***************************************************************************)
(* Model of the Windows compatibility headers of lcod-kernel-rs:           *)
(*   ci/quickjs_win_compat.h   qjs_gettimeofday + the gettimeofday macro   *)
(*   ci/sys/time.h             the gettimeofday function / include_next    *)
(*                                                                         *)
(* Two state machines share the module.                                    *)
(*   Spec       the calls of the shim in a Windows build: the host clock,  *)
(*              the caller's struct timeval and the record of each call.   *)
(*   SpecPP     the preprocessor reading the two headers, one directive    *)
(*              per step, in one compilation unit.                         *)
(*   FairSpecPP SpecPP with the preprocessor always making progress.       *)
(***************************************************************************)
EXTENDS Integers, Sequences, FiniteSets, TLC

VARIABLES
    clock,      \* host wall clock: [time, millitm] (struct _timeb as _ftime_s fills it)
    tv,         \* the caller's struct timeval: [tv_sec, tv_usec]
    last,       \* record of the latest call of the shim
    calls,      \* number of calls made so far
    wentBack,   \* the host clock was set back since the latest call
    macros,     \* preprocessor: names currently defined as macros
    defs,       \* preprocessor: log of the definitions made, in order
    stack,      \* preprocessor: include stack, innermost frame last
    entered,    \* preprocessor: log of the files opened, in order
    errors,     \* preprocessor/compiler: diagnostics raised
    included,   \* number of #include lines of the compilation unit processed
    crtAlloca   \* whether the C runtime's <malloc.h> defines alloca itself

runVars == <<clock, tv, last, calls, wentBack>>
ppVars  == <<macros, defs, stack, entered, errors, included, crtAlloca>>
vars    == <<clock, tv, last, calls, wentBack,
             macros, defs, stack, entered, errors, included, crtAlloca>>

----------------------------------------------------------------------------
(* Bounds of the model *)

MaxCalls == 2

MaxIncludes == 3

----------------------------------------------------------------------------
(* C integer types of the Windows target (LLP64: long and int are 32 bits, *)
(* __time64_t is 64 bits).  A __time64_t value t >= 0 is held in two parts, *)
(* t = hi * 2^31 + lo with 0 <= lo < 2^31, so that every number the model   *)
(* computes stays inside the range of the checker's integers.               *)

\* LONG_MAX of the target, 2^31 - 1.
LongMax == 2147483647

\* (long)t for a __time64_t t: the low 32 bits of t read as a signed number.
\* Bit 31 of t is the parity of hi; bits 0..30 are lo.
ToLong(t) == IF t.hi % 2 = 0 THEN t.lo ELSE (t.lo - LongMax) - 1

\* The long s is the number t.
SameNumber(s, t) == t.hi = 0 /\ s = t.lo

\* t1 <= t2 as numbers
TimeLeq(t1, t2) == t1.hi < t2.hi \/ (t1.hi = t2.hi /\ t1.lo <= t2.lo)

\* Product of an unsigned short and a constant in int / long arithmetic; for
\* millitm <= 65535 the product 65535000 is inside the 32 bits of both types.
MulLong(a, b) == a * b

----------------------------------------------------------------------------
(* The host clock *)

\* Samples of tb.time: small values, and the values around LONG_MAX:
\* 1, 2^31 - 1, 2^31, 2^32 + 1.
Times == {[hi |-> 0, lo |-> 1], [hi |-> 0, lo |-> LongMax],
          [hi |-> 1, lo |-> 0], [hi |-> 2, lo |-> 1]}

\* Samples of tb.millitm (unsigned short, 0..999 as _ftime_s reports it).
Millis == {0, 999}

Clocks == [time : Times, millitm : Millis]

\* a is not later than b
ClockLeq(a, b) ==
    \/ a.time # b.time /\ TimeLeq(a.time, b.time)
    \/ a.time = b.time /\ a.millitm <= b.millitm

\* errno_t results of _ftime_s: 0 is success, EINVAL (22) the error.
Errnos == {0, 22}

\* What struct _timeb may hold after a failed _ftime_s: it is not specified.
TbJunk == {[time |-> [hi |-> 0, lo |-> 99], millitm |-> 77]}

\* One answer of the host to a query: [rc, tb].
Answer(rc, junk) == [rc |-> rc, tb |-> IF rc = 0 THEN clock ELSE junk]

----------------------------------------------------------------------------
(* The callers' side *)

\* Values of the time-zone argument: a null pointer, a pointer to an object,
\* a pointer to nothing.
TzValues == {"NULL", "valid", "dangling"}

\* Contents of a destination record before a call (it may be uninitialized).
CallerRecords == {[tv_sec |-> -7, tv_usec |-> -7], [tv_sec |-> 5, tv_usec |-> 123]}

NoCall ==
    [entry |-> "none", tz |-> "none", rc |-> 0, clk |-> [time |-> [hi |-> 0, lo |-> 0], millitm |-> 0],
     tv0 |-> [tv_sec |-> 0, tv_usec |-> 0], tv1 |-> [tv_sec |-> 0, tv_usec |-> 0],
     ret |-> 0, queries |-> 0, derefs |-> {},
     prevRet |-> 1, prevSec |-> 0, back |-> FALSE]

----------------------------------------------------------------------------
(* quickjs_win_compat.h: qjs_gettimeofday.  `answers` are the host's answers *)
(* to the successive clock queries of the call; the result tells the value  *)
(* returned, the record left behind, the queries made and the pointer       *)
(* arguments dereferenced.                                                  *)

qjs_tv_sec(tb) == ToLong(tb.time)

\* Variant: the milliseconds stored without the conversion to microseconds.
qjs_tv_usec_unscaled(tb) == tb.millitm

\* (long)tb.millitm * 1000
qjs_tv_usec(tb) == MulLong(tb.millitm, 1000)

qjs_gettimeofday(tvIn, answers) ==
    LET a == answers[1] IN
    IF a.rc # 0
    THEN [ret |-> -1, tv |-> tvIn, queries |-> 1, derefs |-> {}]
    ELSE [ret |-> 0,
          tv |-> [tv_sec |-> qjs_tv_sec(a.tb), tv_usec |-> qjs_tv_usec(a.tb)],
          queries |-> 1, derefs |-> {"tv"}]

\* Variant: a macro that rejects a non-null time zone, as some shims do.
gettimeofday_macro_checks_tz(tvIn, tz, answers) ==
    IF tz # "NULL"
    THEN [ret |-> -1, tv |-> tvIn, queries |-> 0, derefs |-> {}]
    ELSE qjs_gettimeofday(tvIn, answers)

\* #define gettimeofday(tv, tz) (void)(tz), qjs_gettimeofday((tv))
\* tz is evaluated and its value discarded.
gettimeofday_macro(tvIn, tz, answers) == qjs_gettimeofday(tvIn, answers)

----------------------------------------------------------------------------
(* sys/time.h: static inline int gettimeofday(struct timeval *tv, void *tz) *)

sys_tv_sec(tb) == ToLong(tb.time)

\* tb.millitm * 1000: unsigned short promoted to int, then stored in a long.
sys_tv_usec(tb) == MulLong(tb.millitm, 1000)

\* Variant: the record is filled from tb before the result of _ftime_s is
\* looked at.
gettimeofday_fill_first(tvIn, tz, answers) ==
    LET a == answers[1]
        filled == [tv_sec |-> sys_tv_sec(a.tb), tv_usec |-> sys_tv_usec(a.tb)]
    IN IF a.rc # 0
       THEN [ret |-> -1, tv |-> filled, queries |-> 1, derefs |-> {"tv"}]
       ELSE [ret |-> 0, tv |-> filled, queries |-> 1, derefs |-> {"tv"}]

gettimeofday(tvIn, tz, answers) ==
    LET a == answers[1] IN
    IF a.rc # 0
    THEN [ret |-> -1, tv |-> tvIn, queries |-> 1, derefs |-> {}]
    ELSE [ret |-> 0,
          tv |-> [tv_sec |-> sys_tv_sec(a.tb), tv_usec |-> sys_tv_usec(a.tb)],
          queries |-> 1, derefs |-> {"tv"}]

----------------------------------------------------------------------------
(* Actions of the run-time machine *)

Record(entry, tz, answers, r) ==
    /\ last' = [entry |-> entry, tz |-> tz, rc |-> answers[1].rc, clk |-> clock,
                tv0 |-> tv, tv1 |-> r.tv, ret |-> r.ret, queries |-> r.queries,
                derefs |-> r.derefs,
                prevRet |-> IF calls = 0 THEN 1 ELSE last.ret,
                prevSec |-> last.tv1.tv_sec,
                back |-> wentBack]
    /\ tv' = r.tv
    /\ calls' = calls + 1
    /\ wentBack' = FALSE
    /\ UNCHANGED clock

\* A direct call qjs_gettimeofday(&tv).
CallQjs ==
    /\ calls < MaxCalls
    /\ \E rc1 \in Errnos, rc2 \in Errnos, junk \in TbJunk :
         LET answers == <<Answer(rc1, junk), Answer(rc2, junk)>> IN
         Record("qjs_gettimeofday", "none", answers, qjs_gettimeofday(tv, answers))
    /\ UNCHANGED ppVars

\* gettimeofday(&tv, tz) with the macro of quickjs_win_compat.h in force.
CallMacro ==
    /\ calls < MaxCalls
    /\ \E tz \in TzValues, rc1 \in Errnos, rc2 \in Errnos, junk \in TbJunk :
         LET answers == <<Answer(rc1, junk), Answer(rc2, junk)>> IN
         Record("macro", tz, answers, gettimeofday_macro(tv, tz, answers))
    /\ UNCHANGED ppVars

\* gettimeofday(&tv, tz) calling the function of sys/time.h.
CallSysTime ==
    /\ calls < MaxCalls
    /\ \E tz \in TzValues, rc1 \in Errnos, rc2 \in Errnos, junk \in TbJunk :
         LET answers == <<Answer(rc1, junk), Answer(rc2, junk)>> IN
         Record("function", tz, answers, gettimeofday(tv, tz, answers))
    /\ UNCHANGED ppVars

\* Time passes on the host.
ClockAdvance ==
    /\ \E c \in Clocks : ClockLeq(clock, c) /\ c # clock /\ clock' = c
    /\ UNCHANGED <<tv, last, calls, wentBack>>
    /\ UNCHANGED ppVars

\* The host clock is set back (an adjustment by the administrator or NTP).
ClockSetBack ==
    /\ \E c \in Clocks : ClockLeq(c, clock) /\ c # clock /\ clock' = c
    /\ wentBack' = TRUE
    /\ UNCHANGED <<tv, last, calls>>
    /\ UNCHANGED ppVars

\* The caller passes another destination record.
CallerRecord ==
    /\ \E r \in CallerRecords : r # tv /\ tv' = r
    /\ UNCHANGED <<clock, last, calls, wentBack>>
    /\ UNCHANGED ppVars

----------------------------------------------------------------------------
(* The preprocessor.  A header is the sequence of its directives and of the *)
(* definitions between them, each with its line in the source file.         *)

Dir(op, name, line) == [op |-> op, name |-> name, line |-> line]

\* Variant of ci/quickjs_win_compat.h: the HAVE_GETTIMEOFDAY block placed
\* after the #endif of the _WIN32 branch.
QuickjsWinCompatH_block_outside ==
    << Dir("ifndef", "LCOD_QJS_WIN_COMPAT_H", 1),
       Dir("define", "LCOD_QJS_WIN_COMPAT_H", 2),
       Dir("ifdef", "_WIN32", 4),
       Dir("include", "winsock2.h", 5),
       Dir("include", "windows.h", 6),
       Dir("include", "sys/timeb.h", 7),
       Dir("include", "malloc.h", 8),
       Dir("ifndef", "alloca", 10),
       Dir("define", "alloca", 11),
       Dir("endif", "", 12),
       Dir("function", "qjs_gettimeofday", 14),
       Dir("endif", "", 29),
       Dir("ifndef", "HAVE_GETTIMEOFDAY", 24),
       Dir("define", "HAVE_GETTIMEOFDAY", 25),
       Dir("define", "gettimeofday", 26),
       Dir("endif", "", 27),
       Dir("endif", "", 31) >>

\* Variant of ci/quickjs_win_compat.h: the redirect made without the test of
\* HAVE_GETTIMEOFDAY.
QuickjsWinCompatH_unguarded ==
    << Dir("ifndef", "LCOD_QJS_WIN_COMPAT_H", 1),
       Dir("define", "LCOD_QJS_WIN_COMPAT_H", 2),
       Dir("ifdef", "_WIN32", 4),
       Dir("include", "winsock2.h", 5),
       Dir("include", "windows.h", 6),
       Dir("include", "sys/timeb.h", 7),
       Dir("include", "malloc.h", 8),
       Dir("ifndef", "alloca", 10),
       Dir("define", "alloca", 11),
       Dir("endif", "", 12),
       Dir("function", "qjs_gettimeofday", 14),
       Dir("define", "gettimeofday", 26),
       Dir("endif", "", 29),
       Dir("endif", "", 31) >>

\* ci/quickjs_win_compat.h
QuickjsWinCompatH ==
    << Dir("ifndef", "LCOD_QJS_WIN_COMPAT_H", 1),
       Dir("define", "LCOD_QJS_WIN_COMPAT_H", 2),
       Dir("ifdef", "_WIN32", 4),
       Dir("include", "winsock2.h", 5),
       Dir("include", "windows.h", 6),
       Dir("include", "sys/timeb.h", 7),
       Dir("include", "malloc.h", 8),
       Dir("ifndef", "alloca", 10),
       Dir("define", "alloca", 11),
       Dir("endif", "", 12),
       Dir("function", "qjs_gettimeofday", 14),
       Dir("ifndef", "HAVE_GETTIMEOFDAY", 24),
       Dir("define", "HAVE_GETTIMEOFDAY", 25),
       Dir("define", "gettimeofday", 26),
       Dir("endif", "", 27),
       Dir("endif", "", 29),
       Dir("endif", "", 31) >>

\* Variant of ci/sys/time.h: the guard tested and the guard defined differ.
SysTimeH_guard_typo ==
    << Dir("ifndef", "LCOD_QJS_SYS_TIME_H", 1),
       Dir("define", "LCOD_QJS_SYS_TIME_H_", 2),
       Dir("ifdef", "_WIN32", 4),
       Dir("include", "winsock2.h", 5),
       Dir("include", "windows.h", 6),
       Dir("include", "sys/timeb.h", 7),
       Dir("include", "malloc.h", 8),
       Dir("ifndef", "alloca", 10),
       Dir("define", "alloca", 11),
       Dir("endif", "", 12),
       Dir("function", "gettimeofday", 14),
       Dir("else", "", 25),
       Dir("include_next", "sys/time.h", 26),
       Dir("endif", "", 27),
       Dir("endif", "", 29) >>

\* ci/sys/time.h
SysTimeH ==
    << Dir("ifndef", "LCOD_QJS_SYS_TIME_H", 1),
       Dir("define", "LCOD_QJS_SYS_TIME_H", 2),
       Dir("ifdef", "_WIN32", 4),
       Dir("include", "winsock2.h", 5),
       Dir("include", "windows.h", 6),
       Dir("include", "sys/timeb.h", 7),
       Dir("include", "malloc.h", 8),
       Dir("ifndef", "alloca", 10),
       Dir("define", "alloca", 11),
       Dir("endif", "", 12),
       Dir("function", "gettimeofday", 14),
       Dir("else", "", 25),
       Dir("include_next", "sys/time.h", 26),
       Dir("endif", "", 27),
       Dir("endif", "", 29) >>

\* The platform's own <sys/time.h>, which include_next reaches: it declares
\* the native gettimeofday under its own guard.
NativeSysTimeH ==
    << Dir("ifndef", "_SYS_TIME_H", 0),
       Dir("define", "_SYS_TIME_H", 0),
       Dir("declare", "gettimeofday", 0),
       Dir("endif", "", 0) >>

\* The C runtime's <malloc.h>: under its own guard, and in some runtimes it
\* defines alloca itself.
MallocH ==
    << Dir("ifndef", "_INC_MALLOC", 0),
       Dir("define", "_INC_MALLOC", 0) >>
    \o (IF crtAlloca THEN << Dir("define", "alloca", 0) >> ELSE << >>)
    \o << Dir("endif", "", 0) >>

\* <winsock2.h>, <windows.h>, <sys/timeb.h>: their declarations (struct
\* timeval, struct _timeb, _ftime_s) are not tracked.
OpaqueH == << >>

\* The include search path: the repository's ci directory comes before the
\* platform's headers.
SearchPath == << "ci", "sdk" >>

RepoHeaders == {"quickjs_win_compat.h", "sys/time.h"}

FilesOf(dir) ==
    IF dir = "ci" THEN RepoHeaders
    ELSE {"sys/time.h", "winsock2.h", "windows.h", "sys/timeb.h", "malloc.h"}

Content(dir, name) ==
    IF dir = "ci"
    THEN (IF name = "quickjs_win_compat.h" THEN QuickjsWinCompatH ELSE SysTimeH)
    ELSE IF name = "sys/time.h" THEN NativeSysTimeH
    ELSE IF name = "malloc.h" THEN MallocH
    ELSE OpaqueH

\* The include guard of a header of the repository.
GuardOf(name) ==
    IF name = "quickjs_win_compat.h" THEN "LCOD_QJS_WIN_COMPAT_H" ELSE "LCOD_QJS_SYS_TIME_H"

\* The first directory after position `from` of the search path that holds
\* `name`; 0 when there is none.
Resolve(name, from) ==
    LET hits == {i \in DOMAIN SearchPath : i > from /\ name \in FilesOf(SearchPath[i])}
    IN IF hits = {} THEN 0 ELSE CHOOSE i \in hits : \A j \in hits : i <= j

\* Where #include starts its search.
IncludeStart(dir) == 0

\* Variant: #include_next searching like #include.
IncludeNextAsInclude(dir) == 0

\* Where #include_next starts its search: after the directory in which the
\* including file was found.
IncludeNextStart(dir) == dir

Top == stack[Len(stack)]

TopContent == Content(SearchPath[Top.dir], Top.file)

AtDirective == stack # << >> /\ Top.pc <= Len(TopContent)

Cur == TopContent[Top.pc]

AllActive(conds) == \A i \in DOMAIN conds : conds[i].active

Active == AllActive(Top.conds)

\* The top frame with its fields changed.
Replace(frame) == [stack EXCEPT ![Len(stack)] = frame]

Advance == Replace([Top EXCEPT !.pc = @ + 1])

PushCond(holds) ==
    Replace([Top EXCEPT !.pc = @ + 1,
                        !.conds = Append(@, [active |-> Active /\ holds,
                                             taken |-> holds])])

FromRepo(file, dir) == SearchPath[dir] = "ci"

\* Opening a file: a frame on the include stack and an entry in the log.
Open(name, dir, via, from) ==
    /\ entered' = Append(entered,
          [file |-> name, dir |-> dir, via |-> via, from |-> from,
           guarded |-> FromRepo(name, dir) /\ GuardOf(name) \in macros,
           depth |-> Len(stack) + 1])
    /\ stack' = (IF stack = << >> THEN << >> ELSE Advance)
                \o << [file |-> name, dir |-> dir, pc |-> 1, conds |-> << >>,
                       inc |-> Len(entered) + 1] >>

Def(kind, name) ==
    [kind |-> kind, name |-> name, file |-> Top.file, dir |-> Top.dir,
     line |-> Cur.line, inc |-> Top.inc]

\* An #include line of the compilation unit itself.
TUInclude ==
    /\ stack = << >>
    /\ included < MaxIncludes
    /\ \E name \in RepoHeaders :
         Open(name, Resolve(name, IncludeStart(0)), "tu", 0)
    /\ included' = included + 1
    /\ UNCHANGED <<macros, defs, errors, crtAlloca>>
    /\ UNCHANGED runVars

DoIfdef ==
    /\ AtDirective /\ Cur.op = "ifdef"
    /\ stack' = PushCond(Cur.name \in macros)
    /\ UNCHANGED <<macros, defs, entered, errors, included, crtAlloca>>
    /\ UNCHANGED runVars

DoIfndef ==
    /\ AtDirective /\ Cur.op = "ifndef"
    /\ stack' = PushCond(Cur.name \notin macros)
    /\ UNCHANGED <<macros, defs, entered, errors, included, crtAlloca>>
    /\ UNCHANGED runVars

DoElse ==
    /\ AtDirective /\ Cur.op = "else"
    /\ LET n == Len(Top.conds)
           outer == SubSeq(Top.conds, 1, n - 1)
       IN stack' = Replace([Top EXCEPT
              !.pc = @ + 1,
              !.conds = Append(outer, [active |-> AllActive(outer) /\ ~Top.conds[n].taken,
                                       taken |-> TRUE])])
    /\ UNCHANGED <<macros, defs, entered, errors, included, crtAlloca>>
    /\ UNCHANGED runVars

DoEndif ==
    /\ AtDirective /\ Cur.op = "endif"
    /\ stack' = Replace([Top EXCEPT !.pc = @ + 1,
                                    !.conds = SubSeq(@, 1, Len(@) - 1)])
    /\ UNCHANGED <<macros, defs, entered, errors, included, crtAlloca>>
    /\ UNCHANGED runVars

\* #define in an active region.
DoDefine ==
    /\ AtDirective /\ Cur.op = "define" /\ Active
    /\ macros' = macros \cup {Cur.name}
    /\ defs' = Append(defs, Def("macro", Cur.name))
    /\ errors' = (IF Cur.name \in macros
                  THEN errors \cup {[what |-> "macro redefined", name |-> Cur.name,
                                     file |-> Top.file, line |-> Cur.line]}
                  ELSE errors)
    /\ stack' = Advance
    /\ UNCHANGED <<entered, included, crtAlloca>>
    /\ UNCHANGED runVars

\* A function definition or a prototype in an active region.  Its name is
\* followed by a parenthesis, so a function-like macro of that name is
\* expanded in the declarator: the text no longer declares anything.
Declared(kind) ==
    /\ IF Cur.name \in macros
       THEN /\ errors' = errors \cup {[what |-> "macro expanded in declarator",
                                       name |-> Cur.name, file |-> Top.file,
                                       line |-> Cur.line]}
            /\ UNCHANGED defs
       ELSE /\ defs' = Append(defs, Def(kind, Cur.name))
            /\ errors' = (IF \E i \in DOMAIN defs :
                               defs[i].kind = "function" /\ kind = "function"
                               /\ defs[i].name = Cur.name
                          THEN errors \cup {[what |-> "function redefined",
                                             name |-> Cur.name, file |-> Top.file,
                                             line |-> Cur.line]}
                          ELSE errors)
    /\ stack' = Advance
    /\ UNCHANGED <<macros, entered, included, crtAlloca>>
    /\ UNCHANGED runVars

DoFunction ==
    /\ AtDirective /\ Cur.op = "function" /\ Active
    /\ Declared("function")

DoDeclare ==
    /\ AtDirective /\ Cur.op = "declare" /\ Active
    /\ Declared("declare")

\* #include <name> and #include_next <name> in an active region.
Included(op, start) ==
    /\ LET dir == Resolve(Cur.name, start) IN
       IF dir = 0
       THEN /\ errors' = errors \cup {[what |-> "file not found", name |-> Cur.name,
                                       file |-> Top.file, line |-> Cur.line]}
            /\ stack' = Advance
            /\ UNCHANGED entered
       ELSE /\ Open(Cur.name, dir, op, Top.inc)
            /\ UNCHANGED errors
    /\ UNCHANGED <<macros, defs, included, crtAlloca>>
    /\ UNCHANGED runVars

DoInclude ==
    /\ AtDirective /\ Cur.op = "include" /\ Active
    /\ Included("include", IncludeStart(Top.dir))

DoIncludeNext ==
    /\ AtDirective /\ Cur.op = "include_next" /\ Active
    /\ Included("include_next", IncludeNextStart(Top.dir))

\* Anything but a conditional in a region that is skipped.
DoSkip ==
    /\ AtDirective /\ ~Active
    /\ Cur.op \notin {"ifdef", "ifndef", "else", "endif"}
    /\ stack' = Advance
    /\ UNCHANGED <<macros, defs, entered, errors, included, crtAlloca>>
    /\ UNCHANGED runVars

\* End of the file: back to the includer.
DoEOF ==
    /\ stack # << >> /\ Top.pc > Len(TopContent)
    /\ stack' = SubSeq(stack, 1, Len(stack) - 1)
    /\ UNCHANGED <<macros, defs, entered, errors, included, crtAlloca>>
    /\ UNCHANGED runVars

PPStep ==
    \/ DoIfdef
    \/ DoIfndef
    \/ DoElse
    \/ DoEndif
    \/ DoDefine
    \/ DoFunction
    \/ DoDeclare
    \/ DoInclude
    \/ DoIncludeNext
    \/ DoSkip
    \/ DoEOF

\* A definition given on the compiler's command line.
Predefined(name) ==
    [kind |-> "macro", name |-> name, file |-> "<command-line>", dir |-> 0,
     line |-> 0, inc |-> 0]

\* Before the first line of a compilation unit: the target defines _WIN32 or
\* not, the build defines HAVE_GETTIMEOFDAY or not.
PPInit ==
    /\ \E win \in BOOLEAN, have \in BOOLEAN :
         /\ macros = (IF win THEN {"_WIN32"} ELSE {})
                     \cup (IF have THEN {"HAVE_GETTIMEOFDAY"} ELSE {})
         /\ defs = (IF have THEN << Predefined("HAVE_GETTIMEOFDAY") >> ELSE << >>)
    /\ stack = << >>
    /\ entered = << >>
    /\ errors = {}
    /\ included = 0
    /\ crtAlloca \in BOOLEAN

RunInit ==
    /\ clock \in Clocks
    /\ tv \in CallerRecords
    /\ last = NoCall
    /\ calls = 0
    /\ wentBack = FALSE

\* The run-time machine: a Windows build, nothing of it being preprocessed.
Init ==
    /\ RunInit
    /\ macros = {"_WIN32"}
    /\ defs = << >>
    /\ stack = << >>
    /\ entered = << >>
    /\ errors = {}
    /\ included = 0
    /\ crtAlloca = FALSE

Next ==
    \/ CallQjs
    \/ CallMacro
    \/ CallSysTime
    \/ ClockAdvance
    \/ ClockSetBack
    \/ CallerRecord

Spec == Init /\ [][Next]_vars

\* The preprocessor machine: no call is made.
InitPP ==
    /\ PPInit
    /\ clock = [time |-> [hi |-> 0, lo |-> 1], millitm |-> 0]
    /\ tv = [tv_sec |-> -7, tv_usec |-> -7]
    /\ last = NoCall
    /\ calls = 0
    /\ wentBack = FALSE

NextPP ==
    \/ TUInclude
    \/ PPStep

SpecPP == InitPP /\ [][NextPP]_vars

\* The preprocessor does not stop in the middle of a file.
FairSpecPP == SpecPP /\ WF_vars(PPStep)

----------------------------------------------------------------------------
(* Properties of the calls (specification Spec) *)

Called == calls > 0

Succeeded == Called /\ last.rc = 0

\* The host's answers as the latest call saw them, with any second answer.
AnswersOfLast(rc2, junk) ==
    << [rc |-> last.rc, tb |-> IF last.rc = 0 THEN last.clk ELSE junk],
       [rc |-> rc2, tb |-> IF rc2 = 0 THEN last.clk ELSE junk] >>

\* The latest call made again with another time-zone argument.
LastCallWith(tz, rc2, junk) ==
    IF last.entry = "macro"
    THEN gettimeofday_macro(last.tv0, tz, AnswersOfLast(rc2, junk))
    ELSE gettimeofday(last.tv0, tz, AnswersOfLast(rc2, junk))

\* C1: after every successful call whose clock reported 0..999 milliseconds,
\* the microseconds written are in 0..999000 and a multiple of 1000.
C1_UsecRange ==
    (Succeeded /\ last.ret = 0 /\ last.clk.millitm \in 0..999)
        => /\ last.tv1.tv_usec \in 0..999000
           /\ last.tv1.tv_usec % 1000 = 0

C1_Witness ==
    /\ Succeeded /\ last.ret = 0
    /\ last.clk.millitm = 999 /\ last.tv1.tv_usec = 999000
    /\ last.tv0.tv_usec = 123

\* C2: when the clock query reports an error the call returns -1, has asked
\* the clock once and leaves both fields of the record as they were.
C2_FailureLeavesRecord ==
    (Called /\ last.rc # 0)
        => /\ last.ret = -1
           /\ last.queries = 1
           /\ last.tv1 = last.tv0
           /\ (tv = last.tv0 \/ tv \in CallerRecords)

C2_Witness ==
    /\ Called /\ last.rc # 0 /\ last.entry = "function"
    /\ last.ret = -1 /\ tv = [tv_sec |-> 5, tv_usec |-> 123]

\* C3: every call whose clock query succeeds returns 0 and writes the seconds
\* since the epoch t, also when t is beyond the range of long, and
\* millitm * 1000; no call returns anything but 0 or -1.
C3_ExactSeconds ==
    /\ Called => last.ret \in {0, -1}
    /\ Succeeded
         => /\ last.ret = 0
            /\ SameNumber(last.tv1.tv_sec, last.clk.time)
            /\ last.tv1.tv_usec = last.clk.millitm * 1000

\* C4: the time-zone argument has no influence: the latest call made with any
\* other time-zone argument, on the same record and the same answers of the
\* clock, returns the same value and leaves the same record, and the argument
\* is not dereferenced.
C4_TzIgnored ==
    (Called /\ last.entry \in {"macro", "function"})
        => /\ "tz" \notin last.derefs
           /\ \A tz \in TzValues, rc2 \in Errnos, junk \in TbJunk :
                LET r == LastCallWith(tz, rc2, junk) IN
                /\ r.ret = last.ret
                /\ r.tv = last.tv1
                /\ "tz" \notin r.derefs

C4_Witness ==
    /\ Called /\ last.entry = "macro" /\ last.tz = "dangling"
    /\ last.ret = 0 /\ last.tv1 # last.tv0

\* C5: of two successful calls made one after the other, with the clock not
\* set back in between, the second writes seconds not less than the first.
C5_SecondsMonotonic ==
    (calls >= 2 /\ last.ret = 0 /\ last.prevRet = 0 /\ ~last.back)
        => last.tv1.tv_sec >= last.prevSec

----------------------------------------------------------------------------
(* Properties of the preprocessing (specifications SpecPP, FairSpecPP) *)

Windows == "_WIN32" \in macros

InRepo(r) == r.dir # 0 /\ SearchPath[r.dir] = "ci"

RepoDefs == {i \in DOMAIN defs : InRepo(defs[i])}

\* The inclusions of a header of the repository, in order of occurrence.
Inclusions(h) == {k \in DOMAIN entered : entered[k].file = h /\ InRepo(entered[k])}

FirstInclusion(h) == CHOOSE k \in Inclusions(h) : \A j \in Inclusions(h) : k <= j

HavePredefined == defs # << >> /\ defs[1] = Predefined("HAVE_GETTIMEOFDAY")

\* C6: a header included again defines nothing: every definition a header
\* makes is made by its first inclusion, and no name is defined twice as the
\* same kind of thing.
C6_IncludeIdempotent ==
    /\ \A i \in RepoDefs : defs[i].inc = FirstInclusion(defs[i].file)
    /\ \A i, j \in DOMAIN defs :
         (i # j) => ~(defs[i].kind = defs[j].kind /\ defs[i].name = defs[j].name)
    /\ \A e \in errors : e.what \notin {"macro redefined", "function redefined"}

C6_Witness ==
    /\ stack = << >> /\ Windows
    /\ Cardinality(Inclusions("sys/time.h")) >= 2
    /\ \E i \in RepoDefs : defs[i].kind = "function" /\ defs[i].name = "gettimeofday"

\* C7: without _WIN32 the headers define nothing but their include guards:
\* no function, no gettimeofday or alloca macro, no HAVE_GETTIMEOFDAY, and
\* the only gettimeofday is the declaration of the platform's header.
C7_AbsentOffWindows ==
    ~Windows
        => /\ \A i \in RepoDefs :
                defs[i].kind = "macro" /\ defs[i].name = GuardOf(defs[i].file)
           /\ macros \cap {"gettimeofday", "alloca", "qjs_gettimeofday"} = {}
           /\ "HAVE_GETTIMEOFDAY" \in macros => HavePredefined
           /\ \A i \in DOMAIN defs :
                defs[i].name \in {"gettimeofday", "qjs_gettimeofday"}
                    => defs[i].kind = "declare" /\ SearchPath[defs[i].dir] = "sdk"
           /\ errors = {}

C7_Witness ==
    /\ ~Windows /\ stack = << >>
    /\ Inclusions("sys/time.h") # {} /\ Inclusions("quickjs_win_compat.h") # {}
    /\ \E i \in DOMAIN defs : defs[i].kind = "declare" /\ defs[i].name = "gettimeofday"

Forwards == {k \in DOMAIN entered : entered[k].via = "include_next"}

C8_Safety ==
    ~Windows
        => /\ \A k \in Forwards :
                /\ entered[k].file = "sys/time.h"
                /\ SearchPath[entered[k].dir] = "sdk"
                /\ entered[entered[k].from].file = "sys/time.h"
                /\ entered[k].dir > entered[entered[k].from].dir
           /\ Cardinality(Forwards) <= 1
           /\ Cardinality({k \in Inclusions("sys/time.h") : ~entered[k].guarded}) <= 1
           /\ \A i, j \in DOMAIN stack :
                (i # j) => ~(stack[i].file = stack[j].file /\ stack[i].dir = stack[j].dir)

\* C8: without _WIN32, sys/time.h makes no inclusion cycle: include_next opens
\* the sys/time.h of a later directory of the search path, never the header
\* itself, at most once in a compilation unit; the header's body is read at
\* most once; and the processing of every #include comes to its end.
C8_NoInclusionCycle ==
    /\ [] C8_Safety
    /\ (~Windows /\ stack # << >>) ~> (stack = << >>)

C8_Witness ==
    /\ ~Windows /\ stack = << >>
    /\ Forwards # {}
    /\ Cardinality(Inclusions("sys/time.h")) >= 2

\* The header has made gettimeofday the shim: as a macro or as a function.
HeaderShim(h) ==
    \E i \in RepoDefs :
        /\ defs[i].file = h /\ defs[i].name = "gettimeofday"
        /\ defs[i].kind \in {"macro", "function"}

\* C9 as stated: after the inclusion of a header, HAVE_GETTIMEOFDAY is defined
\* exactly when that header has made gettimeofday the shim.
C9_GuardTellsShim ==
    stack = << >>
        => \A h \in RepoHeaders :
              Inclusions(h) # {} => ("HAVE_GETTIMEOFDAY" \in macros <=> HeaderShim(h))

\* C9 amended: after quickjs_win_compat.h, with HAVE_GETTIMEOFDAY not defined
\* beforehand, HAVE_GETTIMEOFDAY is defined exactly when that header has
\* redirected gettimeofday to the shim; with it defined beforehand the header
\* redirects nothing; and sys/time.h never defines HAVE_GETTIMEOFDAY.
C9_GuardTellsShimAmended ==
    /\ (stack = << >> /\ Inclusions("quickjs_win_compat.h") # {} /\ ~HavePredefined)
          => ("HAVE_GETTIMEOFDAY" \in macros <=> HeaderShim("quickjs_win_compat.h"))
    /\ HavePredefined => ~HeaderShim("quickjs_win_compat.h")
    /\ \A i \in DOMAIN defs :
          defs[i].name = "HAVE_GETTIMEOFDAY"
              => \/ defs[i] = Predefined("HAVE_GETTIMEOFDAY")
                 \/ InRepo(defs[i]) /\ defs[i].file = "quickjs_win_compat.h"

C9_Witness ==
    /\ stack = << >> /\ Windows /\ ~HavePredefined
    /\ Inclusions("quickjs_win_compat.h") # {} /\ Inclusions("sys/time.h") # {}
    /\ "HAVE_GETTIMEOFDAY" \in macros
    /\ HeaderShim("quickjs_win_compat.h") /\ HeaderShim("sys/time.h")

\* C10: on Windows the two headers go together in either order: gettimeofday
\* is never an active function-like macro where a function of that name is
\* defined, and alloca is defined as a macro at most once.
C10_HeadersCompose ==
    Windows
        => /\ \A e \in errors :
                ~(e.what = "macro expanded in declarator" /\ e.name = "gettimeofday")
           /\ Cardinality({i \in DOMAIN defs :
                             defs[i].kind = "macro" /\ defs[i].name = "alloca"}) <= 1

====
